---- MODULE Spec2Model ----
(***************************************************************************)
(* Model of finnlo.py: the FinnloPdf pipeline (extract_pages, crop_details,*)
(* run) over a file system of raw page images and cropped strips, and of   *)
(* the page order resolver described in the design document.               *)
(*                                                                         *)
(* File names are modelled by the numbers printed in them: the raw file    *)
(* page_NN.png is the number NN, the strip page_NN_SS.png the pair         *)
(* <<NN, SS>>.  Ratios are kept in hundredths (0.07 is 7), and             *)
(* int(height * ratio) is (height * hundredths) \div 100; for the four     *)
(* ratios of the program the two agree for every height up to 20000.       *)
(***************************************************************************)
EXTENDS Integers, Sequences, FiniteSets

VARIABLES
    pc,               \* position of run(): idle, extract_pages, makedirs, render, extracted, crop_details, crop
    raw,              \* raw directory: the page numbers NN whose page_NN.png exists
    raw_dir,          \* whether the raw directory exists
    crop_dir,         \* whether the crop directory exists
    crops,            \* crop directory: records [name |-> <<NN, SS>>, rows |-> <<y_start, y_end>>]
    height,           \* pixel height of the rendered page images
    have_prn0,        \* extract_pages: os.path.exists(prn0) as evaluated by the current call
    handles,          \* number of document handles currently open
    page_count,       \* extract_pages: doc.page_count
    i,                \* extract_pages: index of the next page of enumerate(doc)
    renders,          \* number of pages rendered through the currently open handle
    attempted,        \* page numbers whose loop body ran in the current extract_pages call
    failed,           \* page numbers whose get_pixmap/save raised in the current call
    fatal,            \* which fatal condition the current extract_pages call met
    extract_result,   \* outcome of extract_pages: none, true, false, raised
    crop_result,      \* outcome of crop_details: none, true, raised
    run_result,       \* outcome of run: none, true, false, raised
    rule,             \* crop_details: index of the current rule in crop_definitions
    page_number,      \* crop_details: current page number of the rule's range
    visited,          \* current crop_details call: [rule, page, kind, strips] per page whose loop body ran
    written,          \* strip names written by the current crop_details call
    N,                \* resolver: physical page count
    logical_map,      \* resolver: logical slot (1-based position) -> physical index, or Unresolved
    ri                \* resolver: next physical index to place

varsPipeline == <<pc, raw, raw_dir, crop_dir, crops, height, have_prn0, handles,
                  page_count, i, renders, attempted, failed, fatal, extract_result,
                  crop_result, run_result, rule, page_number, visited, written>>
varsResolver == <<N, logical_map, ri>>
vars == <<varsPipeline, varsResolver>>

\* ---------------------------------------------------------------- bounds
MaxPages == 3
MaxHeight == 1000
MaxN == 16

Min(a, b) == IF a <= b THEN a ELSE b

\* ---------------------------------------------------------- configuration
\* self.crop_strip_height_ratio = 0.3, in hundredths
crop_strip_height_ratio == 30

\* self.crop_definitions: one rule; its page range(44, 83) is scaled to the
\* model's documents: it starts after the first page and ends one page past
\* the longest document, so that pages of the rule can be absent.
crop_definitions ==
    << [start |-> 2, stop |-> MaxPages + 2, breaks |-> <<7, 36, 65>>] >>

get_page_raw(index_zero) == index_zero + 1

get_page_crop(index_zero, sub_index) == <<index_zero + 1, sub_index + 1>>

\* ------------------------------------------------------------- extraction
Pages == 1 .. MaxPages

\* the resumption check looking at page_02.png instead of page_01.png
FirstArtifactOffByOne(r) == get_page_raw(1) \in r

\* the resumption check asking for every page instead of the first one
FirstArtifactAllPages(r) == Pages \subseteq r

\* line 109: the resumption check looks at the first raw artifact only
FirstArtifactExists(r) == get_page_raw(0) \in r

\* lines 146-152: the value extract_pages hands back when the page loop ends;
\* `excepted` says whether the except clause ran (its `return False` is
\* replaced by the `return True` of the finally clause)
LoopReturn(excepted) == "true"

\* run() going on to crop_details whatever extract_pages returned
ExtractionIgnored(res) == TRUE

\* lines 155-156: run() goes on to crop_details only after a true result
ExtractionOk(res) == res = "true"

InitPipeline ==
    /\ pc = "idle"
    /\ raw = {}
    /\ raw_dir = FALSE
    /\ crop_dir = FALSE
    /\ crops = {}
    /\ height = MaxHeight
    /\ have_prn0 = FALSE
    /\ handles = 0
    /\ page_count = 0
    /\ i = 0
    /\ renders = 0
    /\ attempted = {}
    /\ failed = {}
    /\ fatal = "none"
    /\ extract_result = "none"
    /\ crop_result = "none"
    /\ run_result = "none"
    /\ rule = 1
    /\ page_number = 0
    /\ visited = {}
    /\ written = {}

InitResolverIdle ==
    /\ N = 0
    /\ logical_map = <<>>
    /\ ri = 0

Init == InitPipeline /\ InitResolverIdle

\* main() / run(): a new process starts the pipeline (lines 154-155, 162-165)
RunStart ==
    /\ pc = "idle"
    /\ pc' = "extract_pages"
    /\ have_prn0' = FALSE
    /\ handles' = 0
    /\ page_count' = 0
    /\ i' = 0
    /\ renders' = 0
    /\ attempted' = {}
    /\ failed' = {}
    /\ fatal' = "none"
    /\ extract_result' = "none"
    /\ crop_result' = "none"
    /\ run_result' = "none"
    /\ rule' = 1
    /\ page_number' = 0
    /\ visited' = {}
    /\ written' = {}
    /\ UNCHANGED <<raw, raw_dir, crop_dir, crops, height, varsResolver>>

\* lines 108-111: the first raw artifact exists, the stage is taken as done
ExtractAlreadyDone ==
    /\ pc = "extract_pages"
    /\ FirstArtifactExists(raw)
    /\ have_prn0' = TRUE
    /\ extract_result' = "true"
    /\ pc' = "extracted"
    /\ UNCHANGED <<raw, raw_dir, crop_dir, crops, height, handles, page_count, i,
                   renders, attempted, failed, fatal, crop_result, run_result,
                   rule, page_number, visited, written, varsResolver>>

\* lines 113-115: the source PDF is not there
ExtractSourceMissing ==
    /\ pc = "extract_pages"
    /\ ~FirstArtifactExists(raw)
    /\ fatal' = "source_missing"
    /\ extract_result' = "false"
    /\ pc' = "extracted"
    /\ UNCHANGED <<raw, raw_dir, crop_dir, crops, height, have_prn0, handles,
                   page_count, i, renders, attempted, failed, crop_result,
                   run_result, rule, page_number, visited, written,
                   varsResolver>>

\* lines 117-121: fitz.open raises
ExtractOpenFails ==
    /\ pc = "extract_pages"
    /\ ~FirstArtifactExists(raw)
    /\ fatal' = "open_failed"
    /\ extract_result' = "false"
    /\ pc' = "extracted"
    /\ UNCHANGED <<raw, raw_dir, crop_dir, crops, height, have_prn0, handles,
                   page_count, i, renders, attempted, failed, crop_result,
                   run_result, rule, page_number, visited, written,
                   varsResolver>>

\* lines 117-127: fitz.open succeeds on a document of n pages; an empty
\* document is closed at once and the stage succeeds
ExtractOpen ==
    /\ pc = "extract_pages"
    /\ ~FirstArtifactExists(raw)
    /\ \E n \in 0 .. MaxPages :
        /\ page_count' = n
        /\ renders' = 0
        /\ IF n = 0
           THEN /\ handles' = handles
                /\ extract_result' = "true"
                /\ pc' = "extracted"
           ELSE /\ handles' = handles + 1
                /\ extract_result' = extract_result
                /\ pc' = "makedirs"
    /\ UNCHANGED <<raw, raw_dir, crop_dir, crops, height, have_prn0, i, attempted,
                   failed, fatal, crop_result, run_result, rule, page_number,
                   visited, written, varsResolver>>

\* line 132: os.makedirs(self.raw_directory, exist_ok=True) succeeds
ExtractMakedirs ==
    /\ pc = "makedirs"
    /\ raw_dir' = TRUE
    /\ i' = 0
    /\ pc' = "render"
    /\ UNCHANGED <<raw, crop_dir, crops, height, have_prn0, handles, page_count,
                   renders, attempted, failed, fatal, extract_result, crop_result,
                   run_result, rule, page_number, visited, written,
                   varsResolver>>

\* line 132: os.makedirs raises; the call stands outside every try, so the
\* exception leaves extract_pages and run, and doc.close() is not reached
ExtractMakedirsFails ==
    /\ pc = "makedirs"
    /\ ~raw_dir
    /\ fatal' = "makedirs_failed"
    /\ extract_result' = "raised"
    /\ run_result' = "raised"
    /\ pc' = "idle"
    /\ UNCHANGED <<raw, raw_dir, crop_dir, crops, height, have_prn0, handles,
                   page_count, i, renders, attempted, failed, crop_result, rule,
                   page_number, visited, written, varsResolver>>

\* lines 137-140: enumerate(doc) yields None for page i
RenderNone ==
    /\ pc = "render"
    /\ i < page_count
    /\ attempted' = attempted \cup {i + 1}
    /\ i' = i + 1
    /\ UNCHANGED <<pc, raw, raw_dir, crop_dir, crops, height, have_prn0, handles,
                   page_count, renders, failed, fatal, extract_result, crop_result,
                   run_result, rule, page_number, visited, written,
                   varsResolver>>

\* lines 142-145: page i is rendered through the open handle and saved
RenderPage ==
    /\ pc = "render"
    /\ i < page_count
    /\ attempted' = attempted \cup {i + 1}
    /\ renders' = renders + 1
    /\ raw' = raw \cup {get_page_raw(i)}
    /\ i' = i + 1
    /\ UNCHANGED <<pc, raw_dir, crop_dir, crops, height, have_prn0, handles,
                   page_count, failed, fatal, extract_result, crop_result,
                   run_result, rule, page_number, visited, written,
                   varsResolver>>

\* lines 143-152: get_pixmap or save raises on page i; the try encloses the
\* whole loop, so the loop ends here: except logs, finally closes the
\* document and returns
RenderFails ==
    /\ pc = "render"
    /\ i < page_count
    /\ attempted' = attempted \cup {i + 1}
    /\ failed' = failed \cup {i + 1}
    /\ renders' = renders + 1
    /\ handles' = handles - 1
    /\ extract_result' = LoopReturn(TRUE)
    /\ pc' = "extracted"
    /\ UNCHANGED <<raw, raw_dir, crop_dir, crops, height, have_prn0, page_count, i,
                   fatal, crop_result, run_result, rule, page_number, visited,
                   written, varsResolver>>

\* lines 137, 149-152: the loop is exhausted; finally closes the document
RenderLoopEnd ==
    /\ pc = "render"
    /\ i = page_count
    /\ handles' = handles - 1
    /\ extract_result' = LoopReturn(FALSE)
    /\ pc' = "extracted"
    /\ UNCHANGED <<raw, raw_dir, crop_dir, crops, height, have_prn0, page_count, i,
                   renders, attempted, failed, fatal, crop_result, run_result, rule,
                   page_number, visited, written, varsResolver>>

\* lines 155-156: extract_pages returned False, run returns False
RunAbort ==
    /\ pc = "extracted"
    /\ ~ExtractionOk(extract_result)
    /\ run_result' = "false"
    /\ pc' = "idle"
    /\ UNCHANGED <<raw, raw_dir, crop_dir, crops, height, have_prn0, handles,
                   page_count, i, renders, attempted, failed, fatal, extract_result,
                   crop_result, rule, page_number, visited, written,
                   varsResolver>>

\* lines 155-157: extract_pages returned True, run calls crop_details
RunCrop ==
    /\ pc = "extracted"
    /\ ExtractionOk(extract_result)
    /\ pc' = "crop_details"
    /\ UNCHANGED <<raw, raw_dir, crop_dir, crops, height, have_prn0, handles,
                   page_count, i, renders, attempted, failed, fatal, extract_result,
                   crop_result, run_result, rule, page_number, visited,
                   written, varsResolver>>

\* ---------------------------------------------------------------- cropping
\* line 78: strip_height_px = int(height * self.crop_strip_height_ratio)
StripHeightPx(h) == (h * crop_strip_height_ratio) \div 100

\* y_start rounded up instead of truncated
YStartRoundedUp(h, y_start_ratio) == (h * y_start_ratio + 99) \div 100

\* line 83: y_start = int(height * y_start_ratio)
YStart(h, y_start_ratio) == (h * y_start_ratio) \div 100

\* lines 86-89: y_end = min(y_start + strip_height_px, height)
YEnd(y_start, strip_height_px, h) == Min(y_start + strip_height_px, h)

\* lines 81-96: the strip file written for entry sub_index (0-based) of breaks
Strip(h, index_zero, sub_index, breaks) ==
    LET y_start == YStart(h, breaks[sub_index + 1])
        y_end == YEnd(y_start, StripHeightPx(h), h)
    IN  [name |-> get_page_crop(index_zero, sub_index), rows |-> <<y_start, y_end>>]

\* cv2.imwrite replaces a file of the same name
WriteAll(dir, files) ==
    {c \in dir : \A f \in files : f.name # c.name} \cup files

\* a missing raw file ending the rule's page loop instead of being skipped
NextPageBreakOnMissing(kind, p, stop) == IF kind = "missing" THEN stop ELSE p + 1

\* lines 59, 66, 73, 99-101: whatever happened to a page (kind), the loop goes
\* on with the next page number of the range
NextPage(kind, p, stop) == p + 1

\* lines 157-159: run returns what crop_details returned
RunReturn(res) == res

\* line 47: os.makedirs(self.crop_directory, exist_ok=True) succeeds
CropMakedirs ==
    /\ pc = "crop_details"
    /\ crop_dir' = TRUE
    /\ rule' = 1
    /\ page_number' = crop_definitions[1].start
    /\ pc' = "crop"
    /\ UNCHANGED <<raw, raw_dir, crops, height, have_prn0, handles, page_count, i,
                   renders, attempted, failed, fatal, extract_result, crop_result,
                   run_result, visited, written, varsResolver>>

\* line 47: os.makedirs raises; the exception leaves crop_details and run
CropMakedirsFails ==
    /\ pc = "crop_details"
    /\ ~crop_dir
    /\ crop_result' = "raised"
    /\ run_result' = "raised"
    /\ pc' = "idle"
    /\ UNCHANGED <<raw, raw_dir, crop_dir, crops, height, have_prn0, handles,
                   page_count, i, renders, attempted, failed, fatal, extract_result,
                   rule, page_number, visited, written, varsResolver>>

InRule ==
    /\ pc = "crop"
    /\ rule <= Len(crop_definitions)
    /\ page_number < crop_definitions[rule].stop

\* lines 64-66: the raw file of the page is not there
CropMissing ==
    /\ InRule
    /\ get_page_raw(page_number - 1) \notin raw
    /\ visited' = visited \cup
           {[rule |-> rule, page |-> page_number, kind |-> "missing", strips |-> 0]}
    /\ page_number' = NextPage("missing", page_number, crop_definitions[rule].stop)
    /\ UNCHANGED <<pc, raw, raw_dir, crop_dir, crops, height, have_prn0, handles,
                   page_count, i, renders, attempted, failed, fatal, extract_result,
                   crop_result, run_result, rule, written, varsResolver>>

\* lines 70-73: cv2.imread returns None
CropUndecodable ==
    /\ InRule
    /\ get_page_raw(page_number - 1) \in raw
    /\ visited' = visited \cup
           {[rule |-> rule, page |-> page_number, kind |-> "undecodable", strips |-> 0]}
    /\ page_number' = NextPage("undecodable", page_number, crop_definitions[rule].stop)
    /\ UNCHANGED <<pc, raw, raw_dir, crop_dir, crops, height, have_prn0, handles,
                   page_count, i, renders, attempted, failed, fatal, extract_result,
                   crop_result, run_result, rule, written, varsResolver>>

\* lines 68-101: the page is loaded and its strips are written in list order;
\* a call inside the try may raise before strip k (0-based) is written, the
\* except clause logs it and the strips written so far stay; k = Len(breaks)
\* is the page cropped in full
CropStrips ==
    /\ InRule
    /\ get_page_raw(page_number - 1) \in raw
    /\ \E k \in 0 .. Len(crop_definitions[rule].breaks) :
        LET breaks == crop_definitions[rule].breaks
            files == {Strip(height, page_number - 1, s, breaks) : s \in 0 .. (k - 1)}
            kind == IF k = Len(breaks) THEN "cropped" ELSE "raised"
        IN  /\ crops' = WriteAll(crops, files)
            /\ written' = written \cup {f.name : f \in files}
            /\ visited' = visited \cup
                   {[rule |-> rule, page |-> page_number, kind |-> kind, strips |-> k]}
            /\ page_number' = NextPage(kind, page_number, crop_definitions[rule].stop)
    /\ UNCHANGED <<pc, raw, raw_dir, crop_dir, height, have_prn0, handles,
                   page_count, i, renders, attempted, failed, fatal, extract_result,
                   crop_result, run_result, rule, varsResolver>>

\* lines 50, 59: the page range of the rule is exhausted, the next rule starts
CropNextRule ==
    /\ pc = "crop"
    /\ rule <= Len(crop_definitions)
    /\ page_number >= crop_definitions[rule].stop
    /\ rule' = rule + 1
    /\ page_number' = IF rule + 1 <= Len(crop_definitions)
                      THEN crop_definitions[rule + 1].start
                      ELSE page_number
    /\ UNCHANGED <<pc, raw, raw_dir, crop_dir, crops, height, have_prn0, handles,
                   page_count, i, renders, attempted, failed, fatal, extract_result,
                   crop_result, run_result, visited, written, varsResolver>>

\* lines 103-104, 157-159: every rule is done; crop_details returns True and
\* run returns it
CropFinish ==
    /\ pc = "crop"
    /\ rule > Len(crop_definitions)
    /\ crop_result' = "true"
    /\ run_result' = RunReturn("true")
    /\ pc' = "idle"
    /\ UNCHANGED <<raw, raw_dir, crop_dir, crops, height, have_prn0, handles,
                   page_count, i, renders, attempted, failed, fatal, extract_result,
                   rule, page_number, visited, written, varsResolver>>

Next ==
    \/ RunStart
    \/ ExtractAlreadyDone
    \/ ExtractSourceMissing
    \/ ExtractOpenFails
    \/ ExtractOpen
    \/ ExtractMakedirs
    \/ ExtractMakedirsFails
    \/ RenderNone
    \/ RenderPage
    \/ RenderFails
    \/ RenderLoopEnd
    \/ RunAbort
    \/ RunCrop
    \/ CropMakedirs
    \/ CropMakedirsFails
    \/ CropMissing
    \/ CropUndecodable
    \/ CropStrips
    \/ CropNextRule
    \/ CropFinish

Spec == Init /\ [][Next]_vars

\* -------------------------------------------------- cropping on its own
\* crop_details entered by a run whose extract_pages found page_01.png and
\* returned at once; the raw directory holds images of any height up to
\* MaxHeight, the crop directory does not exist yet
InitCrop ==
    /\ pc = "crop_details"
    /\ raw \in {r \in SUBSET Pages : FirstArtifactExists(r)}
    /\ raw_dir = TRUE
    /\ crop_dir = FALSE
    /\ crops = {}
    /\ height \in 1 .. MaxHeight
    /\ have_prn0 = TRUE
    /\ handles = 0
    /\ page_count = 0
    /\ i = 0
    /\ renders = 0
    /\ attempted = {}
    /\ failed = {}
    /\ fatal = "none"
    /\ extract_result = "true"
    /\ crop_result = "none"
    /\ run_result = "none"
    /\ rule = 1
    /\ page_number = 0
    /\ visited = {}
    /\ written = {}
    /\ InitResolverIdle

NextCrop ==
    \/ CropMakedirs
    \/ CropMakedirsFails
    \/ CropMissing
    \/ CropUndecodable
    \/ CropStrips
    \/ CropNextRule
    \/ CropFinish

SpecCrop == InitCrop /\ [][NextCrop]_vars

\* ------------------------------------------------------ page order resolver
\* the mark of a logical slot no physical index was assigned to
Unresolved == -1

\* the outward-in branch taken for residues {0, 1} instead of {0, 3}
TargetSlotWrongResidues(p, n) ==
    IF p % 4 \in {0, 1} THEN n - 1 - (p \div 2) ELSE p \div 2

\* the forward branch rounding the half index up
TargetSlotRoundedUp(p, n) ==
    IF p % 4 \in {0, 3} THEN n - 1 - (p \div 2) ELSE (p + 1) \div 2

\* the logical slot (0-based) of physical index p among n pages
TargetSlot(p, n) ==
    IF p % 4 \in {0, 3} THEN n - 1 - (p \div 2) ELSE p \div 2

\* resolve(n) starts from a mapping of n unresolved slots
InitResolve ==
    /\ InitPipeline
    /\ N \in 0 .. MaxN
    /\ logical_map = [s \in 1 .. N |-> Unresolved]
    /\ ri = 0

\* resolve(n) places physical index ri in its slot (slot t is position t + 1)
ResolveStep ==
    /\ ri < N
    /\ LET t == TargetSlot(ri, N)
       IN  logical_map' = IF t + 1 \in DOMAIN logical_map
                          THEN [logical_map EXCEPT ![t + 1] = ri]
                          ELSE logical_map
    /\ ri' = ri + 1
    /\ UNCHANGED <<N, varsPipeline>>

NextResolve == ResolveStep

SpecResolve == InitResolve /\ [][NextResolve]_vars

\* ==================================================================== claims
SlotsOf(p) == {s \in 1 .. N : logical_map[s] = p}

UnresolvedSlots == {s \in 1 .. N : logical_map[s] = Unresolved}

Bijective ==
    /\ \A p \in 0 .. (N - 1) : Cardinality(SlotsOf(p)) = 1
    /\ UnresolvedSlots = {}

\* C1: for every even page count N >= 2 the finished mapping is a bijection on
\* 0..N-1: every physical index sits in exactly one logical slot and every
\* logical slot is filled.
C1_EvenCountBijection ==
    (ri = N /\ N >= 2 /\ N % 2 = 0) => Bijective

\* C1 witness: resolve(8) has finished with the mapping [1, 2, 5, 6, 7, 4, 3, 0].
C1_Witness ==
    ri = N /\ N = 8 /\ logical_map = <<1, 2, 5, 6, 7, 4, 3, 0>>

\* C2 as stated: for every odd page count the finished mapping leaves exactly
\* one logical slot unresolved and every other slot holds one physical index.
C2_OddCountOneUnresolved ==
    (ri = N /\ N % 2 = 1) => Cardinality(UnresolvedSlots) = 1

\* C2 amended: for every odd page count the finished mapping is a bijection on
\* 0..N-1 as well; no logical slot stays unresolved.
C2_OddCountBijection ==
    (ri = N /\ N % 2 = 1) => Bijective

\* C2 witness: resolve(5) has finished with every slot filled: [1, 2, 4, 3, 0].
C2_Witness ==
    ri = N /\ N = 5 /\ logical_map = <<1, 2, 4, 3, 0>>

\* C3: a render or save failure on one page does not stop the batch: when
\* extract_pages returns after a failure, the loop body has run for every page
\* of the document, the later ones included, and the result is success.
C3_RenderFailureContinues ==
    (pc = "extracted" /\ failed # {}) =>
        /\ attempted = 1 .. page_count
        /\ extract_result = "true"

\* C4: whenever page_01.png exists when extract_pages is called, the call
\* renders no page, writes no file, does not open the source document and
\* returns success.
C4_SkipWhenFirstExists ==
    [][(pc = "extract_pages" /\ 1 \in raw) =>
          /\ raw' = raw
          /\ raw_dir' = raw_dir
          /\ crops' = crops
          /\ crop_dir' = crop_dir
          /\ handles' = handles
          /\ renders' = renders
          /\ attempted' = attempted
          /\ extract_result' = "true"
          /\ pc' = "extracted"]_vars

\* C4 witness: a call of extract_pages that found page_01.png (written by an
\* earlier call) has returned success with no handle opened and no page tried.
C4_Witness ==
    /\ pc = "extracted"
    /\ have_prn0
    /\ extract_result = "true"
    /\ handles = 0
    /\ attempted = {}
    /\ 1 \in raw

\* C5: crop_details is entered only after extract_pages returned success; if
\* extract_pages returns failure, run returns failure and creates no crop file
\* or crop directory; otherwise run returns what crop_details returns.
C5_CropOnlyAfterExtraction ==
    [][/\ (pc' \in {"crop_details", "crop"}) => extract_result' = "true"
       /\ (crop_result' # "none") => extract_result' = "true"
       /\ (pc = "extracted" /\ extract_result = "false") =>
             /\ pc' = "idle"
             /\ run_result' = "false"
             /\ crop_result' = "none"
             /\ crops' = crops
             /\ crop_dir' = crop_dir
       /\ (pc \in {"crop_details", "crop"} /\ pc' = "idle") =>
             run_result' = crop_result']_vars

\* C5 witness: a run has returned failure after extract_pages found no source
\* document; crop_details never ran and no crop directory exists.
C5_Witness ==
    /\ pc = "idle"
    /\ run_result = "false"
    /\ fatal = "source_missing"
    /\ crop_result = "none"
    /\ ~crop_dir

\* C6: extract_pages returns failure exactly when the source document is
\* missing, cannot be opened, or the output directory cannot be created; in
\* every other case it returns success; a boolean comes back on every path and
\* no exception escapes.
C6_ExtractResultBoolean ==
    (extract_result # "none") =>
        /\ extract_result \in {"true", "false"}
        /\ (extract_result = "false") <=> (fatal # "none")

\* C7: every strip file (page, s) holds the rows [yStart, yEnd) with
\* yStart = floor(H * r), r the break at position s, and
\* yEnd = min(yStart + floor(H * stripHeightRatio), H), so
\* 0 <= yStart <= yEnd <= H; a page cropped in full has one strip per break;
\* for H = 1000 the strips are [70,370), [360,660), [650,950).
C7_CropGeometry ==
    /\ \A c \in crops :
        LET r == crop_definitions[1].breaks[c.name[2]]
            yStart == c.rows[1]
            yEnd == c.rows[2]
            d == yEnd - yStart
        IN  /\ yStart * 100 <= height * r
            /\ height * r < (yStart + 1) * 100
            /\ \/ /\ yEnd < height
                  /\ d * 100 <= height * crop_strip_height_ratio
                  /\ height * crop_strip_height_ratio < (d + 1) * 100
               \/ /\ yEnd = height
                  /\ (height - yStart) * 100 <= height * crop_strip_height_ratio
            /\ 0 <= yStart /\ yStart <= yEnd /\ yEnd <= height
            /\ (height = 1000) =>
                  c.rows = CASE c.name[2] = 1 -> <<70, 370>>
                             [] c.name[2] = 2 -> <<360, 660>>
                             [] OTHER -> <<650, 950>>
    /\ \A v \in visited :
        (v.kind = "cropped") =>
            \A s \in 1 .. Len(crop_definitions[v.rule].breaks) :
                \E c \in crops : c.name = <<v.page, s>>

\* C7 witness: a page of height 1000 has been cropped in full and its third
\* strip holds the rows [650, 950).
C7_Witness ==
    /\ height = 1000
    /\ \E v \in visited :
        /\ v.kind = "cropped"
        /\ [name |-> <<v.page, 1>>, rows |-> <<70, 370>>] \in crops
        /\ [name |-> <<v.page, 2>>, rows |-> <<360, 660>>] \in crops
        /\ [name |-> <<v.page, 3>>, rows |-> <<650, 950>>] \in crops

\* every <<rule, page number>> the rule table names
RulePages ==
    UNION {{<<k, p>> : p \in crop_definitions[k].start .. (crop_definitions[k].stop - 1)} :
              k \in 1 .. Len(crop_definitions)}

StripsWrittenFor(p) == {n \in written : n[1] = p}

\* C8 as stated: when crop_details returns, every page that was missing, not
\* decodable or whose crop raised has no strip written by the call, every page
\* of every rule was processed, and crop_details and run returned success.
C8_FailedPageWritesNothing ==
    (pc = "idle" /\ crop_result # "none" /\ crop_result # "raised") =>
        /\ \A v \in visited : (v.kind # "cropped") => StripsWrittenFor(v.page) = {}
        /\ {<<v.rule, v.page>> : v \in visited} = RulePages
        /\ crop_result = "true"
        /\ run_result = "true"

\* C8 amended: a page whose raw file is missing or cannot be decoded gets no
\* strip; a page whose crop raises keeps exactly the strips written before the
\* exception and gets no further one; every page of every rule is still
\* processed, and crop_details and run return success.
C8_FailedPageSkipped ==
    (pc = "idle" /\ crop_result # "none" /\ crop_result # "raised") =>
        /\ \A v \in visited :
            /\ (v.kind \in {"missing", "undecodable"}) => StripsWrittenFor(v.page) = {}
            /\ (v.kind = "raised") =>
                  /\ v.strips < Len(crop_definitions[v.rule].breaks)
                  /\ StripsWrittenFor(v.page) = {<<v.page, s>> : s \in 1 .. v.strips}
        /\ {<<v.rule, v.page>> : v \in visited} = RulePages
        /\ crop_result = "true"
        /\ run_result = "true"

\* C8 witness: crop_details has returned success after page 2 raised behind its
\* first strip, page 3 was cropped in full and the last page was missing.
C8_Witness ==
    /\ pc = "idle"
    /\ crop_result = "true"
    /\ run_result = "true"
    /\ [rule |-> 1, page |-> 2, kind |-> "raised", strips |-> 1] \in visited
    /\ [rule |-> 1, page |-> 3, kind |-> "cropped", strips |-> 3] \in visited
    /\ \E v \in visited : v.kind = "missing"
    /\ StripsWrittenFor(2) = {<<2, 1>>}

\* C9: no document handle is held across two page renders, and whenever
\* extraction has ended every handle it opened has been closed.
C9_HandlePerPage ==
    /\ renders <= 1
    /\ (pc \notin {"extract_pages", "makedirs", "render"}) => handles = 0

\* C10: once page_01.png exists, every later call of extract_pages finds it,
\* writes no raw file and returns success, so raw pages that are missing stay
\* missing, and the cropper skips them without writing a strip.
C10_NoRawWriteOnceFirstExists ==
    [][/\ (1 \in raw) => (1 \in raw')
       /\ (pc = "idle") => raw' = raw
       /\ (pc = "extract_pages" /\ 1 \in raw) =>
             (have_prn0' /\ raw' = raw /\ extract_result' = "true")
       /\ have_prn0 => raw' = raw
       /\ (have_prn0 /\ pc = "extracted") => pc' = "crop_details"
       /\ (pc = "crop" /\ rule <= Len(crop_definitions)
             /\ page_number < crop_definitions[rule].stop
             /\ page_number \notin raw) =>
             (crops' = crops /\ written' = written)]_vars

\* C10 witness: a run that found page_01.png has ended in success while
\* page_02.png is still missing and the cropper skipped page 2.
C10_Witness ==
    /\ pc = "idle"
    /\ have_prn0
    /\ run_result = "true"
    /\ 1 \in raw
    /\ 2 \notin raw
    /\ [rule |-> 1, page |-> 2, kind |-> "missing", strips |-> 0] \in visited

====
